---- MODULE Spec2Model ----
(***************************************************************************)
(* Model of txt_lines (src/core_logic_classes.py): the reverse, chunked    *)
(* line reader reverse_lines_chunked and the state of the object it works  *)
(* on.  Bytes are integers 0..255, text is a sequence of code points.      *)
(***************************************************************************)
EXTENDS Integers, Sequences, FiniteSets, TLC

(* ------------------------------------------------------------------ *)
(* Bounds of the model                                                *)
(* ------------------------------------------------------------------ *)
MaxLen == 4
MaxChunk == 5
MaxLiveLen == 3
MaxIterLen == 3
MaxGroup == 2

(* newline = b"\n", and the '\r' that rstrip removes *)
NL == 10
CR == 13

(* Byte values the files are built from: \n, \r, "a" (97), the lead  *)
(* byte 0xE2 (226) of a 3-byte character and the continuation byte    *)
(* 0x82 (130); E2 82 82 encodes the code point 8322.                  *)
Alphabet == {NL, CR, 97, 226, 130}

RECURSIVE SeqsUpTo(_)
SeqsUpTo(n) ==
    IF n = 0 THEN {<<>>}
    ELSE LET shorter == SeqsUpTo(n - 1)
         IN shorter \cup {Append(s, b) : s \in {t \in shorter : Len(t) = n - 1}, b \in Alphabet}

Files == SeqsUpTo(MaxLen)
ChunkSizes == 1..MaxChunk

(* ------------------------------------------------------------------ *)
(* bytes.decode("utf-8"), strict                                      *)
(* ------------------------------------------------------------------ *)
IsCont(b) == b >= 128 /\ b <= 191

CharLen(b) ==
    IF b < 128 THEN 1
    ELSE IF b >= 194 /\ b <= 223 THEN 2
    ELSE IF b >= 224 /\ b <= 239 THEN 3
    ELSE IF b >= 240 /\ b <= 244 THEN 4
    ELSE 0

(* the range of the second byte depends on the lead byte *)
SecondOk(b0, b1) ==
    IF b0 = 224 THEN b1 >= 160 /\ b1 <= 191
    ELSE IF b0 = 237 THEN b1 >= 128 /\ b1 <= 159
    ELSE IF b0 = 240 THEN b1 >= 144 /\ b1 <= 191
    ELSE IF b0 = 244 THEN b1 >= 128 /\ b1 <= 143
    ELSE IsCont(b1)

CharOk(bytes, i, n) ==
    /\ n > 0
    /\ i + n - 1 <= Len(bytes)
    /\ n >= 2 => SecondOk(bytes[i], bytes[i + 1])
    /\ \A k \in 2..(n - 1) : IsCont(bytes[i + k])

CodePoint(bytes, i, n) ==
    IF n = 1 THEN bytes[i]
    ELSE IF n = 2 THEN (bytes[i] - 192) * 64 + (bytes[i + 1] - 128)
    ELSE IF n = 3 THEN (bytes[i] - 224) * 4096 + (bytes[i + 1] - 128) * 64
                       + (bytes[i + 2] - 128)
    ELSE (bytes[i] - 240) * 262144 + (bytes[i + 1] - 128) * 4096
         + (bytes[i + 2] - 128) * 64 + (bytes[i + 3] - 128)

RECURSIVE DecodeFrom(_, _)
DecodeFrom(bytes, i) ==
    IF i > Len(bytes) THEN [ok |-> TRUE, text |-> <<>>]
    ELSE LET n == CharLen(bytes[i])
         IN IF ~CharOk(bytes, i, n) THEN [ok |-> FALSE, text |-> <<>>]
            ELSE LET rest == DecodeFrom(bytes, i + n)
                 IN IF rest.ok
                    THEN [ok |-> TRUE, text |-> <<CodePoint(bytes, i, n)>> \o rest.text]
                    ELSE rest

(* ok = FALSE is UnicodeDecodeError *)
Decode(bytes) == DecodeFrom(bytes, 1)

(* ------------------------------------------------------------------ *)
(* helpers of reverse_lines_chunked                                   *)
(* ------------------------------------------------------------------ *)
Min(a, b) == IF a <= b THEN a ELSE b

(* the min forgotten: everything left is read at once *)
ReadSizeAll(c, pos) == pos

(* read_size = min(chunk_size, position) *)
ReadSize(c, pos) == Min(c, pos)

(* off by one: f.seek(pos + 1) *)
ReadAtShifted(f, pos, n) == SubSeq(f, pos + 2, Min(pos + n + 1, Len(f)))

(* f.seek(pos); f.read(n): the n bytes of the file from offset pos *)
ReadAt(f, pos, n) == SubSeq(f, pos + 1, pos + n)

(* the new chunk put behind the buffer instead of in front of it *)
PrependSwapped(chunk, buf) == buf \o chunk

(* buffer = chunk + buffer *)
Prepend(chunk, buf) == chunk \o buf

(* find instead of rfind: the leftmost newline *)
RFindLeftmost(buf) ==
    LET hits == {i \in 1..Len(buf) : buf[i] = NL}
    IN IF hits = {} THEN 0 ELSE CHOOSE i \in hits : \A j \in hits : i <= j

(* buffer.rfind(b"\n"), as a 1-based index; 0 stands for Python's -1 *)
RFind(buf) ==
    LET hits == {i \in 1..Len(buf) : buf[i] = NL}
    IN IF hits = {} THEN 0 ELSE CHOOSE i \in hits : \A j \in hits : j <= i

(* off by one: buffer[nl_index:], the newline included *)
LineBytesFromNewline(buf, nl) == SubSeq(buf, nl, Len(buf))

(* line_bytes = buffer[nl_index + 1:] *)
LineBytes(buf, nl) == SubSeq(buf, nl + 1, Len(buf))

(* buffer = buffer[:nl_index + 1] *)
KeepThrough(buf, nl) == SubSeq(buf, 1, nl)

(* the terminator is never trimmed from the buffer *)
KeepBeforeForgotten(buf, nl) == SubSeq(buf, 1, nl)

(* buffer = buffer[:nl_index] *)
KeepBefore(buf, nl) == SubSeq(buf, 1, nl - 1)

(* buffer = line_bytes + buffer, after a UnicodeDecodeError *)
Remerge(line_bytes, buf) == line_bytes \o buf

(* str.rstrip('\r'): removes every trailing carriage return *)
RECURSIVE RStripCR(_)
RStripCR(text) ==
    IF Len(text) > 0 /\ text[Len(text)] = CR
    THEN RStripCR(SubSeq(text, 1, Len(text) - 1))
    ELSE text

(* line.rstrip('\r') + '\n' *)
Normalize(text) == RStripCR(text) \o <<NL>>

(* if len(line) > 0: the guard of the append inside the loop *)
Accepts(text) == Len(text) > 0

(* ------------------------------------------------------------------ *)
(* read_lines(): open(..., 'r', encoding='utf-8').readlines(); text   *)
(* mode translates \r\n, \r and \n to \n and splits after each      *)
(* ------------------------------------------------------------------ *)
RECURSIVE SplitUniversal(_, _, _)
SplitUniversal(text, i, cur) ==
    IF i > Len(text) THEN (IF cur = <<>> THEN <<>> ELSE <<cur>>)
    ELSE IF text[i] = NL THEN <<Append(cur, NL)>> \o SplitUniversal(text, i + 1, <<>>)
    ELSE IF text[i] = CR
         THEN <<Append(cur, NL)>> \o
              SplitUniversal(text, IF i < Len(text) /\ text[i + 1] = NL THEN i + 2 ELSE i + 1, <<>>)
    ELSE SplitUniversal(text, i + 1, Append(cur, text[i]))

ReadLines(f) == SplitUniversal(Decode(f).text, 1, <<>>)

(* ------------------------------------------------------------------ *)
(* State                                                              *)
(* ------------------------------------------------------------------ *)
VARIABLES
    file,        \* the bytes of the file at self.filepath
    lines,       \* self.lines
    pc,          \* "idle", "seeking" (outer loop test), "draining" (inner loop), "done"
    chunk_size,  \* the argument of the latest call (0: not called yet)
    position,    \* local position
    buffer,      \* local buffer
    returned,    \* the value the latest call returned
    signal,      \* how the latest call ended: "ok", "NotFound", "IOFailure"
    warned,      \* the latest call printed "Could not decode some final bytes"
    prev,        \* the latest earlier call that returned normally: its chunk_size and list
    lines_iterator,  \* self.lines_iterator
    next_out     \* what the latest next() gave: a line, or None

(* a TransactionReconciler and its call of reconcile() *)
VARIABLES
    group_a,            \* self.group_a
    group_b,            \* self.group_b
    rpc,                \* "idle", "pass_a" (first loop), "pass_b" (second loop), "done"
    idx,                \* idx_a in the first loop, idx_b in the second: rows done so far
    matched_b_indices,  \* local of reconcile()
    matched_a_indices,  \* local of reconcile()
    result_a,           \* local of reconcile(), returned
    result_b            \* local of reconcile(), returned

recon_vars == <<group_a, group_b, rpc, idx, matched_b_indices, matched_a_indices,
                result_a, result_b>>

(* an instance of a class with one computed property *)
VARIABLES
    attrs,   \* the instance's attributes: name -> value, "MISSING" when absent
    cache,   \* instance.__dict__['_computed_cache'], the entry of the property
    got,     \* the latest read of the property: its value, and whether func ran
    dirty    \* a dependency changed its value since the latest read

prop_vars == <<attrs, cache, got, dirty>>

vars == <<file, lines, pc, chunk_size, position, buffer, returned, signal, warned, prev,
          lines_iterator, next_out, recon_vars, prop_vars>>

(* __init__: the lines are loaded when the file decodes; an object    *)
(* whose file does not decode was built without a path (lines = [])   *)
(* and given its filepath afterwards                                  *)
(* no reconciler has been built, reconcile() is not running *)
ReconIdle ==
    /\ group_a = <<>>
    /\ group_b = <<>>
    /\ rpc = "idle"
    /\ idx = 0
    /\ matched_b_indices = {}
    /\ matched_a_indices = {}
    /\ result_a = <<>>
    /\ result_b = <<>>

(* no instance with a computed property has been built *)
PropIdle ==
    /\ attrs = [n \in {"a", "b", "c"} |-> "MISSING"]
    /\ cache = [has |-> FALSE, value |-> <<>>, deps |-> <<>>]
    /\ got = [kind |-> "none", value |-> <<>>, computed |-> FALSE]
    /\ dirty = FALSE

Init ==
    /\ ReconIdle
    /\ PropIdle
    /\ file \in Files
    /\ lines = IF Decode(file).ok THEN ReadLines(file) ELSE <<>>
    /\ pc = "idle"
    /\ chunk_size = 0
    /\ position = 0
    /\ buffer = <<>>
    /\ returned = <<>>
    /\ signal = "none"
    /\ warned = FALSE
    /\ prev = [has |-> FALSE, c |-> 0, value |-> <<>>]
    /\ lines_iterator = 0
    /\ next_out = [kind |-> "none", value |-> <<>>]

(* the caller keeps the result of a call that returned normally *)
Remember ==
    IF pc = "done" /\ signal = "ok"
    THEN [has |-> TRUE, c |-> chunk_size, value |-> returned]
    ELSE prev

(* the reverse read also rewinds the forward iterator *)
CallResetsIterator(c) ==
    /\ pc \in {"idle", "done"}
    /\ lines' = <<>>
    /\ buffer' = <<>>
    /\ chunk_size' = c
    /\ position' = Len(file)
    /\ pc' = "seeking"
    /\ returned' = <<>>
    /\ signal' = "running"
    /\ warned' = FALSE
    /\ prev' = Remember
    /\ lines_iterator' = 0
    /\ UNCHANGED <<file, next_out>>
    /\ UNCHANGED <<recon_vars, prop_vars>>

(* reverse_lines_chunked(chunk_size = c): open succeeds; seek to the end, tell *)
Call(c) ==
    /\ pc \in {"idle", "done"}
    /\ lines' = <<>>
    /\ buffer' = <<>>
    /\ chunk_size' = c
    /\ position' = Len(file)
    /\ pc' = "seeking"
    /\ returned' = <<>>
    /\ signal' = "running"
    /\ warned' = FALSE
    /\ prev' = Remember
    /\ UNCHANGED <<file, lines_iterator, next_out>>
    /\ UNCHANGED <<recon_vars, prop_vars>>

(* self.lines = [] moved behind the open: the old lines survive *)
CallNotFoundKeepsLines(c) ==
    /\ pc \in {"idle", "done"}
    /\ buffer' = <<>>
    /\ chunk_size' = c
    /\ position' = 0
    /\ pc' = "done"
    /\ returned' = <<>>
    /\ signal' = "NotFound"
    /\ warned' = FALSE
    /\ prev' = Remember
    /\ UNCHANGED <<file, lines, lines_iterator, next_out>>
    /\ UNCHANGED <<recon_vars, prop_vars>>

(* reverse_lines_chunked: open raises FileNotFoundError; return [] *)
CallNotFound(c) ==
    /\ pc \in {"idle", "done"}
    /\ lines' = <<>>
    /\ buffer' = <<>>
    /\ chunk_size' = c
    /\ position' = 0
    /\ pc' = "done"
    /\ returned' = <<>>
    /\ signal' = "NotFound"
    /\ warned' = FALSE
    /\ prev' = Remember
    /\ UNCHANGED <<file, lines_iterator, next_out>>
    /\ UNCHANGED <<recon_vars, prop_vars>>

(* the read length not limited to position: position = max(0, position - *)
(* chunk_size) and f.read(chunk_size), which reads some bytes twice       *)
FetchOverlapping ==
    /\ pc = "seeking"
    /\ position > 0
    /\ LET newpos == IF position > chunk_size THEN position - chunk_size ELSE 0
           read_size == Min(chunk_size, Len(file) - newpos)
       IN /\ position' = newpos
          /\ buffer' = Prepend(ReadAt(file, newpos, read_size), buffer)
    /\ pc' = "draining"
    /\ UNCHANGED <<file, lines, chunk_size, returned, signal, warned, prev, lines_iterator, next_out>>
    /\ UNCHANGED <<recon_vars, prop_vars>>

(* one pass of `while position > 0` up to the inner loop *)
Fetch ==
    /\ pc = "seeking"
    /\ position > 0
    /\ LET read_size == ReadSize(chunk_size, position)
           newpos == position - read_size
       IN /\ position' = newpos
          /\ buffer' = Prepend(ReadAt(file, newpos, read_size), buffer)
    /\ pc' = "draining"
    /\ UNCHANGED <<file, lines, chunk_size, returned, signal, warned, prev, lines_iterator, next_out>>
    /\ UNCHANGED <<recon_vars, prop_vars>>

(* f.seek or f.read raises: except Exception; return [] *)
FetchFail ==
    /\ pc = "seeking"
    /\ position > 0
    /\ returned' = <<>>
    /\ signal' = "IOFailure"
    /\ pc' = "done"
    /\ position' = 0
    /\ buffer' = <<>>
    /\ UNCHANGED <<file, lines, chunk_size, warned, prev, lines_iterator, next_out>>
    /\ UNCHANGED <<recon_vars, prop_vars>>

(* one pass of the inner `while True` *)
Extract ==
    /\ pc = "draining"
    /\ LET nl_index == RFind(buffer)
           line_bytes == LineBytes(buffer, nl_index)
           kept == KeepThrough(buffer, nl_index)
           line == Decode(line_bytes)
       IN IF nl_index = 0
          THEN /\ pc' = "seeking"
               /\ UNCHANGED <<lines, buffer>>
          ELSE IF line.ok
          THEN /\ lines' = IF Accepts(line.text)
                           THEN Append(lines, Normalize(line.text))
                           ELSE lines
               /\ buffer' = KeepBefore(kept, nl_index)
               /\ pc' = "draining"
          ELSE /\ buffer' = Remerge(line_bytes, kept)
               /\ pc' = "seeking"
               /\ UNCHANGED lines
    /\ UNCHANGED <<file, chunk_size, position, returned, signal, warned, prev, lines_iterator, next_out>>
    /\ UNCHANGED <<recon_vars, prop_vars>>

(* a failed decode of the remainder handled like the other errors: return [] *)
FlushReturnsEmptyOnFailure ==
    /\ pc = "seeking"
    /\ position = 0
    /\ LET line == Decode(buffer)
           out == IF buffer # <<>> /\ line.ok
                  THEN Append(lines, Normalize(line.text))
                  ELSE lines
       IN /\ lines' = out
          /\ returned' = IF buffer # <<>> /\ ~line.ok THEN <<>> ELSE out
          /\ warned' = (buffer # <<>> /\ ~line.ok)
    /\ signal' = "ok"
    /\ pc' = "done"
    /\ buffer' = <<>>
    /\ UNCHANGED <<file, chunk_size, position, prev, lines_iterator, next_out>>
    /\ UNCHANGED <<recon_vars, prop_vars>>

(* the loop is left (position = 0): the remaining bytes, and return self.lines *)
Flush ==
    /\ pc = "seeking"
    /\ position = 0
    /\ LET line == Decode(buffer)
           out == IF buffer # <<>> /\ line.ok
                  THEN Append(lines, Normalize(line.text))
                  ELSE lines
       IN /\ lines' = out
          /\ returned' = out
          /\ warned' = (buffer # <<>> /\ ~line.ok)
    /\ signal' = "ok"
    /\ pc' = "done"
    /\ buffer' = <<>>
    /\ UNCHANGED <<file, chunk_size, position, prev, lines_iterator, next_out>>
    /\ UNCHANGED <<recon_vars, prop_vars>>

Next ==
    \/ \E c \in ChunkSizes : Call(c)
    \/ \E c \in ChunkSizes : CallNotFound(c)
    \/ Fetch
    \/ FetchFail
    \/ Extract
    \/ Flush

Spec == Init /\ [][Next]_vars

(* ------------------------------------------------------------------ *)
(* The forward iterator; no call runs inside reverse_lines_chunked    *)
(* ------------------------------------------------------------------ *)
(* __next__ *)
NextLine ==
    /\ pc \in {"idle", "done"}
    /\ IF lines_iterator >= Len(lines)
       THEN /\ next_out' = [kind |-> "None", value |-> <<>>]
            /\ UNCHANGED lines_iterator
       ELSE /\ next_out' = [kind |-> "line", value |-> lines[lines_iterator + 1]]
            /\ lines_iterator' = lines_iterator + 1
    /\ UNCHANGED <<file, lines, pc, chunk_size, position, buffer, returned, signal, warned, prev>>
    /\ UNCHANGED <<recon_vars, prop_vars>>

(* reset *)
Reset ==
    /\ pc \in {"idle", "done"}
    /\ lines_iterator' = 0
    /\ UNCHANGED <<file, lines, pc, chunk_size, position, buffer, returned, signal, warned, prev,
                   next_out>>
    /\ UNCHANGED <<recon_vars, prop_vars>>

(* every operation of a txt_lines object *)
NextObject ==
    \/ Next
    \/ NextLine
    \/ Reset

InitObject == Init /\ Len(file) <= MaxIterLen

ObjectSpec == InitObject /\ [][NextObject]_vars

(* the files of the liveness specification *)
InitLive == Init /\ Len(file) <= MaxLiveLen

(* the sequential execution of the call never stops between two steps *)
FairSpec == InitLive /\ [][Next]_vars /\ WF_vars(Fetch \/ Extract \/ Flush)

(* ------------------------------------------------------------------ *)
(* Vocabulary of the properties                                       *)
(* ------------------------------------------------------------------ *)
Reverse(s) == [i \in 1..Len(s) |-> s[Len(s) + 1 - i]]

ValidFile == Decode(file).ok
Scanning == pc \in {"seeking", "draining"}
Returned == pc = "done" /\ signal = "ok"

(* the spans of a text between its \n: k terminators give k + 1 spans *)
RECURSIVE SplitNL(_, _, _)
SplitNL(text, i, cur) ==
    IF i > Len(text) THEN <<cur>>
    ELSE IF text[i] = NL THEN <<cur>> \o SplitNL(text, i + 1, <<>>)
    ELSE SplitNL(text, i + 1, Append(cur, text[i]))

Spans(f) == SplitNL(Decode(f).text, 1, <<>>)

(* one trailing \r removed, if there is one *)
StripOneCR(text) ==
    IF Len(text) > 0 /\ text[Len(text)] = CR
    THEN SubSeq(text, 1, Len(text) - 1)
    ELSE text

(* the forward lines of a file, each terminator (\n, \r\n, or none on *)
(* the last line) replaced by one \n                                  *)
ForwardLines(f) ==
    LET sp == Spans(f)
        n == Len(sp)
        terminated == [i \in 1..(n - 1) |-> Append(StripOneCR(sp[i]), NL)]
    IN IF sp[n] = <<>> THEN terminated ELSE Append(terminated, Append(sp[n], NL))

(* C1: for a valid UTF-8 file, the returned list reversed is the file's *)
(* forward sequence of lines with every terminator normalized to \n.  *)
C1_RoundTrip ==
    (Returned /\ ValidFile) => Reverse(returned) = ForwardLines(file)

(* C2: for a valid UTF-8 file, a call returns the same list as the     *)
(* earlier call made with any other chunk size.                       *)
C2_ChunkSizeIndependence ==
    (Returned /\ ValidFile /\ prev.has) => returned = prev.value

C2_Witness ==
    /\ Returned /\ ValidFile /\ prev.has
    /\ prev.c = 1
    /\ chunk_size > Len(file)
    /\ Len(file) >= 4
    /\ Len(returned) >= 2

(* C3: every empty line between two terminators of a valid file is a   *)
(* line "\n" of the returned list, at its place in the reverse order.  *)
C3_EmptyLinesPreserved ==
    (Returned /\ ValidFile) =>
        LET fwd == ForwardLines(file)
        IN \A i \in 2..Len(fwd) :
              fwd[i] = <<NL>> =>
                 /\ Len(returned) >= Len(fwd) + 1 - i
                 /\ returned[Len(fwd) + 1 - i] = <<NL>>

(* the multi-byte characters of a text, in order *)
MultiByte(text) == SelectSeq(text, LAMBDA ch : ch > 127)

(* per line, the multi-byte characters of the lines that have some *)
MultiBytePerLine(texts) ==
    SelectSeq([i \in 1..Len(texts) |-> MultiByte(texts[i])], LAMBDA m : m # <<>>)

HasMultiByte(f) == \E i \in 1..Len(f) : f[i] > 127

(* C4: for a valid UTF-8 file with a multi-byte character, whatever    *)
(* the chunk size, every such character is decoded intact in the line *)
(* of its physical line, and the list equals the one returned with    *)
(* another chunk size.                                                *)
C4_MultiByteSafety ==
    (Returned /\ ValidFile /\ HasMultiByte(file)) =>
        /\ MultiBytePerLine(returned) = Reverse(MultiBytePerLine(Spans(file)))
        /\ prev.has => returned = prev.value

(* a 3-byte character behind a line end, read one byte at a time, after *)
(* a call that read the file in one chunk                              *)
C4_Witness ==
    /\ Returned /\ ValidFile
    /\ Len(file) >= 4 /\ file[1] # 226 /\ HasMultiByte(file)
    /\ chunk_size = 1
    /\ prev.has /\ prev.c >= Len(file)
    /\ \E i \in 1..Len(returned) : 8322 \in {returned[i][k] : k \in 1..Len(returned[i])}

OneTerminator(text) ==
    /\ Len(text) >= 1
    /\ text[Len(text)] = NL
    /\ \A k \in 1..(Len(text) - 1) : text[k] # NL

(* C5: whatever the bytes of the file, at every point of a scan every  *)
(* element of the output list ends with one \n and holds no other \n. *)
C5_CanonicalTerminator ==
    pc # "idle" => \A i \in 1..Len(lines) : OneTerminator(lines[i])

(* the candidate span of the step about to happen: the bytes after the *)
(* rightmost \n inside the loop, the whole remainder after it          *)
Candidate ==
    IF pc = "draining" THEN LineBytes(buffer, RFind(buffer)) ELSE buffer

(* C6: every line emitted is the decoded candidate span with a single  *)
(* trailing \r removed, if present, followed by one \n.               *)
C6_StripsOneCR ==
    [][(Scanning /\ lines' # lines) =>
          lines' = Append(lines, Append(StripOneCR(Decode(Candidate).text), NL))]_vars

RECURSIVE IsSubSeq(_, _)
IsSubSeq(s, t) ==
    IF s = <<>> THEN TRUE
    ELSE IF t = <<>> THEN FALSE
    ELSE IF Head(s) = Head(t) THEN IsSubSeq(Tail(s), Tail(t))
    ELSE IsSubSeq(s, Tail(t))

(* the file's spans between \n from the last to the first, as lines *)
SpanLinesReversed(f) ==
    LET sp == Spans(f) IN Reverse([i \in 1..Len(sp) |-> Normalize(sp[i])])

(* C7: during a scan of a valid UTF-8 file the output list only grows  *)
(* by one line at its end, and its lines are file spans at strictly   *)
(* decreasing offsets.                                                *)
C7_StrictReverseOrder ==
    /\ []((ValidFile /\ pc # "idle") => IsSubSeq(lines, SpanLinesReversed(file)))
    /\ [][Scanning =>
            \/ lines' = lines
            \/ /\ Len(lines') = Len(lines) + 1
               /\ SubSeq(lines', 1, Len(lines)) = lines]_vars

C7_Witness ==
    /\ pc = "draining" /\ ValidFile
    /\ chunk_size = 1
    /\ Len(lines) >= 2 /\ lines[1] # lines[2]

(* C8: every scan reaches Done; every pass of the outer loop lowers    *)
(* position, and every pass of the inner loop shortens the buffer or  *)
(* leaves the loop.                                                   *)
C8_Termination ==
    /\ Scanning ~> pc = "done"
    /\ [][(pc = "seeking" /\ pc' = "draining") => position' < position]_vars
    /\ [][pc = "draining" => (Len(buffer') < Len(buffer) \/ pc' # "draining")]_vars

(* a scan of a full-length file, one byte at a time, has returned *)
C8_Witness ==
    /\ Returned
    /\ chunk_size = 1
    /\ Len(file) >= 3
    /\ Len(returned) >= 2

(* C9: when the path resolves to no file, the call returns an empty    *)
(* list without raising, and the stored lines are empty.              *)
C9_NotFound ==
    signal = "NotFound" => (pc = "done" /\ returned = <<>> /\ lines = <<>>)

(* the file went away after a scan that had stored lines *)
C9_Witness ==
    /\ pc = "done" /\ signal = "NotFound"
    /\ prev.has /\ Len(prev.value) >= 2

(* C10: when a seek or read fails after k lines were emitted, the call *)
(* returns without raising and the list it returns is those k lines,  *)
(* the stored self.lines.                                             *)
C10_IOFailureReturnsPartial ==
    signal = "IOFailure" => (pc = "done" /\ returned = lines)

(* C11: at offset 0 a non-empty remainder that does not decode is      *)
(* dropped after one attempt: the lines emitted before stay as they   *)
(* are and are returned, without an error value.                      *)
C11_TrailingDecodeFailure ==
    [][(pc = "seeking" /\ position = 0 /\ buffer # <<>> /\ ~Decode(buffer).ok /\ pc' # pc) =>
          /\ pc' = "done"
          /\ signal' = "ok"
          /\ warned'
          /\ lines' = lines
          /\ returned' = lines]_vars

(* lines were emitted before the remainder failed to decode *)
C11_Witness ==
    /\ Returned /\ warned
    /\ Len(returned) >= 1

MaxOf(S) == CHOOSE m \in S : \A x \in S : x <= m

(* the byte length of the longest line of a file, its \n included *)
LongestLine(f) ==
    LET ends == {i \in 1..Len(f) : f[i] = NL} \cup {Len(f)}
    IN MaxOf({e - MaxOf({0} \cup {j \in 1..(e - 1) : f[j] = NL}) : e \in ends})

(* C12: during a scan of a valid UTF-8 file the pending buffer is never *)
(* longer than chunk_size plus the longest line of the file.           *)
C12_BoundedBuffer ==
    (Scanning /\ ValidFile) => Len(buffer) <= chunk_size + LongestLine(file)

(* the bound is met, below the length of the file *)
C12_Witness ==
    /\ Scanning /\ ValidFile
    /\ Len(buffer) = chunk_size + LongestLine(file)
    /\ Len(buffer) < Len(file)

(* the buffer is the bytes of the file from position up to some offset *)
BufferIsFileRange ==
    \E boundary \in position..Len(file) :
        buffer = SubSeq(file, position + 1, boundary)

(* C18: at every point of a scan, also right after a rejected span was *)
(* merged back, the pending buffer holds the file bytes of            *)
(* [position, boundary) in file order.                                *)
C18_PendingBufferInvariant ==
    Scanning => BufferIsFileRange

(* C19: position stays in [0, N] and never increases; each fetch reads *)
(* min(chunk_size, position) bytes from the lowered position, never   *)
(* below offset 0; the fetches start at N, follow one another without *)
(* gap or overlap, and the scan returns only when they reached 0.     *)
C19_CursorInvariant ==
    /\ [](position \in 0..Len(file))
    /\ [][(pc' = "seeking" /\ ~Scanning) => position' = Len(file)]_vars
    /\ [][Scanning => position' <= position]_vars
    /\ [][(pc = "seeking" /\ pc' = "draining") =>
            LET n == position - position'
            IN /\ n = (IF chunk_size <= position THEN chunk_size ELSE position)
               /\ n >= 1
               /\ position' >= 0
               /\ buffer' = SubSeq(file, position' + 1, position) \o buffer]_vars
    /\ [][(Scanning /\ signal' = "ok") => position = 0]_vars

(* the last fetch read fewer bytes than chunk_size, down to offset 0 *)
C19_Witness ==
    /\ pc = "draining"
    /\ position = 0
    /\ chunk_size = 2
    /\ Len(file) = 3
    /\ Len(buffer) >= 1

C13_NoInteraction ==
    [][Next => (lines' = lines /\ lines_iterator' = lines_iterator)]_vars

(* C13, amended: a call of reverse_lines_chunked leaves lines_iterator  *)
(* and the latest result of next() as they are, and replaces the lines  *)
(* next() reads by its own output.                                     *)
C13_IteratorKeptLinesReplaced ==
    /\ [][Next => (lines_iterator' = lines_iterator /\ next_out' = next_out)]_vars
    /\ [][(pc' = "seeking" /\ ~Scanning) => lines' = <<>>]_vars
    /\ [](Returned => lines = returned)

(* after a reverse read, next() has given the second line of the       *)
(* reversed list, which is not the second forward line                 *)
C13_Witness ==
    /\ Returned /\ ValidFile
    /\ Len(ReadLines(file)) >= 2 /\ Len(lines) >= 2
    /\ lines_iterator = 2
    /\ next_out = [kind |-> "line", value |-> lines[2]]
    /\ lines[2] # ReadLines(file)[2]

(* C14: next() at the end of the loaded lines raises StopIteration and *)
(* leaves lines_iterator as it is; otherwise it returns the line at    *)
(* lines_iterator and advances it by one.                              *)
C14_NextExhaustion ==
    [][NextLine =>
          IF lines_iterator >= Len(lines)
          THEN next_out'.kind = "StopIteration" /\ lines_iterator' = lines_iterator
          ELSE /\ next_out' = [kind |-> "line", value |-> lines[lines_iterator + 1]]
               /\ lines_iterator' = lines_iterator + 1]_vars


(* ------------------------------------------------------------------ *)
(* TransactionReconciler.reconcile                                    *)
(* ------------------------------------------------------------------ *)
(* the txt_lines object of the other specifications: not in use *)
TxtIdle ==
    /\ file = <<>>
    /\ lines = <<>>
    /\ pc = "idle"
    /\ chunk_size = 0
    /\ position = 0
    /\ buffer = <<>>
    /\ returned = <<>>
    /\ signal = "none"
    /\ warned = FALSE
    /\ prev = [has |-> FALSE, c |-> 0, value |-> <<>>]
    /\ lines_iterator = 0
    /\ next_out = [kind |-> "none", value |-> <<>>]

(* Transaction.date is a string; the last one names no "%Y-%m-%d" date *)
Dates == {"2024-01-01", "2024-01-02", "2024-01-03", "2024-1-2", "02/01/2024"}

(* datetime.strptime(date, "%Y-%m-%d"): the day of January 2024 it yields,
   0 when it raises ValueError; the fields need not be zero padded *)
ParseDay(d) ==
    CASE d = "2024-01-01" -> 1
      [] d = "2024-01-02" -> 2
      [] d = "2024-01-03" -> 3
      [] d = "2024-1-2"   -> 2
      [] OTHER            -> 0

(* the place of a date in the order of Python strings, which is the order
   of the sort key x[1].date: '/' < '0' < '1' at the third and sixth character *)
StrRank(d) ==
    CASE d = "02/01/2024" -> 0
      [] d = "2024-01-01" -> 1
      [] d = "2024-01-02" -> 2
      [] d = "2024-01-03" -> 3
      [] OTHER            -> 4

(* key stands for the triple (department, value, beneficiary) *)
Transactions ==
    [date : Dates, key : {"k1"}] \cup {[date |-> "2024-01-02", key |-> "k2"]}

Groups == UNION {[1..n -> Transactions] : n \in 0..MaxGroup}

AbsDiff(m, n) == IF m >= n THEN m - n ELSE n - m

is_match_with_tolerance(self, other) ==
    IF self.key # other.key
    THEN FALSE
    ELSE IF ParseDay(self.date) = 0 \/ ParseDay(other.date) = 0
         THEN FALSE
         ELSE AbsDiff(ParseDay(self.date), ParseDay(other.date)) <= 1

(* the candidates list without its filter on the matched indices *)
CandidatesUnfiltered(tx, group, matched) ==
    {i \in 0..(Len(group) - 1) : is_match_with_tolerance(tx, group[i + 1])}

(* the indices of the candidates list built for tx *)
Candidates(tx, group, matched) ==
    {i \in 0..(Len(group) - 1) :
        i \notin matched /\ is_match_with_tolerance(tx, group[i + 1])}

(* candidates[0] after the stable sort by date string *)
Earliest(cands, group) ==
    CHOOSE i \in cands : \A j \in cands :
        \/ StrRank(group[i + 1].date) < StrRank(group[j + 1].date)
        \/ StrRank(group[i + 1].date) = StrRank(group[j + 1].date) /\ i <= j

Row(tx, label) == [tx |-> tx, label |-> label]

ReconInit ==
    /\ TxtIdle
    /\ PropIdle
    /\ group_a \in Groups
    /\ group_b \in Groups
    /\ rpc = "idle"
    /\ idx = 0
    /\ matched_b_indices = {}
    /\ matched_a_indices = {}
    /\ result_a = <<>>
    /\ result_b = <<>>

txt_vars == <<file, lines, pc, chunk_size, position, buffer, returned, signal, warned, prev,
              lines_iterator, next_out>>

(* reconcile() is called: the locals of the first loop *)
Reconcile ==
    /\ rpc = "idle"
    /\ rpc' = "pass_a"
    /\ idx' = 0
    /\ matched_b_indices' = {}
    /\ result_a' = <<>>
    /\ UNCHANGED <<group_a, group_b, matched_a_indices, result_b, txt_vars, prop_vars>>

(* one turn of the loop over group_a *)
StepA ==
    /\ rpc = "pass_a"
    /\ idx < Len(group_a)
    /\ LET tx_a == group_a[idx + 1]
           candidates == Candidates(tx_a, group_b, matched_b_indices)
       IN IF candidates # {}
          THEN /\ matched_b_indices' = matched_b_indices \cup {Earliest(candidates, group_b)}
               /\ result_a' = Append(result_a, Row(tx_a, "FOUND"))
          ELSE /\ result_a' = Append(result_a, Row(tx_a, "MISSING"))
               /\ UNCHANGED matched_b_indices
    /\ idx' = idx + 1
    /\ UNCHANGED <<group_a, group_b, rpc, matched_a_indices, result_b, txt_vars, prop_vars>>

(* the first loop is over: the locals of the second loop *)
EnterB ==
    /\ rpc = "pass_a"
    /\ idx = Len(group_a)
    /\ rpc' = "pass_b"
    /\ idx' = 0
    /\ matched_a_indices' = {}
    /\ result_b' = <<>>
    /\ UNCHANGED <<group_a, group_b, matched_b_indices, result_a, txt_vars, prop_vars>>

(* one turn of the loop over group_b *)
StepB ==
    /\ rpc = "pass_b"
    /\ idx < Len(group_b)
    /\ LET tx_b == group_b[idx + 1]
           candidates == Candidates(tx_b, group_a, matched_a_indices)
       IN IF candidates # {}
          THEN /\ matched_a_indices' = matched_a_indices \cup {Earliest(candidates, group_a)}
               /\ result_b' = Append(result_b, Row(tx_b, "FOUND"))
          ELSE /\ result_b' = Append(result_b, Row(tx_b, "MISSING"))
               /\ UNCHANGED matched_a_indices
    /\ idx' = idx + 1
    /\ UNCHANGED <<group_a, group_b, rpc, matched_b_indices, result_a, txt_vars, prop_vars>>

(* return result_a, result_b *)
ReturnResults ==
    /\ rpc = "pass_b"
    /\ idx = Len(group_b)
    /\ rpc' = "done"
    /\ UNCHANGED <<group_a, group_b, idx, matched_b_indices, matched_a_indices,
                   result_a, result_b, txt_vars, prop_vars>>

ReconNext ==
    \/ Reconcile
    \/ StepA
    \/ EnterB
    \/ StepB
    \/ ReturnResults

ReconSpec == ReconInit /\ [][ReconNext]_vars

Found(result) == {i \in 1..Len(result) : result[i].label = "FOUND"}

(* C15: in each pass a transaction of the other group is consumed by at
   most one match: a row labelled FOUND adds one index that was not yet
   matched, a row labelled MISSING adds none, so the rows labelled FOUND
   in result_a are as many as the matched indices of group_b and never
   more than len(group_b); the same for result_b and group_a. *)
C15_MatchOnlyOnce ==
    /\ [][StepA =>
            \/ /\ result_a' = Append(result_a, Row(group_a[idx + 1], "MISSING"))
               /\ matched_b_indices' = matched_b_indices
            \/ /\ result_a' = Append(result_a, Row(group_a[idx + 1], "FOUND"))
               /\ \E i \in (0..(Len(group_b) - 1)) \ matched_b_indices :
                     matched_b_indices' = matched_b_indices \cup {i}]_vars
    /\ [][StepB =>
            \/ /\ result_b' = Append(result_b, Row(group_b[idx + 1], "MISSING"))
               /\ matched_a_indices' = matched_a_indices
            \/ /\ result_b' = Append(result_b, Row(group_b[idx + 1], "FOUND"))
               /\ \E i \in (0..(Len(group_a) - 1)) \ matched_a_indices :
                     matched_a_indices' = matched_a_indices \cup {i}]_vars
    /\ [](/\ Cardinality(Found(result_a)) = Cardinality(matched_b_indices)
          /\ Cardinality(Found(result_a)) <= Len(group_b)
          /\ Cardinality(Found(result_b)) = Cardinality(matched_a_indices)
          /\ Cardinality(Found(result_b)) <= Len(group_a))

(* a transaction of group_a is left MISSING although it matches one of
   group_b: that one was consumed by an earlier row *)
C15_Witness ==
    /\ rpc = "done"
    /\ \E i \in 1..Len(result_a) :
          /\ result_a[i].label = "MISSING"
          /\ \E j \in 1..Len(group_b) : is_match_with_tolerance(group_a[i], group_b[j])


(* ------------------------------------------------------------------ *)
(* computed_property: one instance, one property                      *)
(* ------------------------------------------------------------------ *)
(* the attribute names of the instance; the property is declared as
   @computed_property("a", "b"), "c" is an attribute it does not name *)
Names == {"a", "b", "c"}

Dependencies == <<"a", "b">>

(* attribute values: None, the int 1, the bool True and the str 'c' *)
Values == {"None", "int1", "True", "c"}

(* Python's == on these values and on _MISSING: 1 == True, and every
   other pair of distinct values is unequal *)
PyEq(x, y) == x = y \/ {x, y} = {"int1", "True"}

(* tuple(getattr(instance, dep, _MISSING) for dep in self.dependencies) *)
CurrentDeps(at) == [i \in 1..Len(Dependencies) |-> at[Dependencies[i]]]

(* current_deps == last_deps *)
DepsEqual(t, u) == \A i \in 1..Len(Dependencies) : PyEq(t[i], u[i])

(* the decorated function: here one that tells every two dependency
   values apart, as one that formats them with repr() does *)
Func(at) == CurrentDeps(at)

NoCache == [has |-> FALSE, value |-> <<>>, deps |-> <<>>]

PropInit ==
    /\ TxtIdle
    /\ ReconIdle
    /\ attrs \in [Names -> Values \cup {"MISSING"}]
    /\ cache = NoCache
    /\ got = [kind |-> "none", value |-> <<>>, computed |-> FALSE]
    /\ dirty = FALSE

(* ComputedProperty.__get__ on the instance *)
GetProp ==
    /\ LET current_deps == CurrentDeps(attrs)
       IN IF cache.has /\ DepsEqual(current_deps, cache.deps)
          THEN /\ got' = [kind |-> "value", value |-> cache.value, computed |-> FALSE]
               /\ UNCHANGED cache
          ELSE /\ cache' = [has |-> TRUE, value |-> Func(attrs), deps |-> current_deps]
               /\ got' = [kind |-> "value", value |-> Func(attrs), computed |-> TRUE]
    /\ dirty' = FALSE
    /\ UNCHANGED <<attrs, txt_vars, recon_vars>>

(* name in deps: deps is the cached tuple of dependency values *)
NameInDeps(name, deps) == \E i \in 1..Len(deps) : PyEq(name, deps[i])

(* instance.name = value, through custom_setattr once a cache exists *)
SetAttr(name, value) ==
    /\ cache' = IF cache.has /\ NameInDeps(name, cache.deps) THEN NoCache ELSE cache
    /\ attrs' = [attrs EXCEPT ![name] = value]
    /\ dirty' = (dirty \/ (\E i \in 1..Len(Dependencies) :
                              Dependencies[i] = name /\ attrs[name] # value))
    /\ UNCHANGED <<got, txt_vars, recon_vars>>

PropNext ==
    \/ GetProp
    \/ \E name \in Names, value \in Values : SetAttr(name, value)

PropSpec == PropInit /\ [][PropNext]_vars

(* C16: a read of the property that follows an earlier read, with no
   dependency attribute changed in value in between, does not invoke
   the decorated function and returns the value of the earlier read,
   whatever other assignments happened in between. *)
C16_CacheReuse ==
    [][(GetProp /\ got.kind = "value" /\ ~dirty) =>
          (~got'.computed /\ got'.value = got.value)]_vars

(* C17: every read of the property returns what the decorated function
   yields for the current dependency values of the instance. *)
C17_Freshness ==
    [][GetProp => got'.value = Func(attrs)]_vars


(* C21: when reconcile() returns, result_a and result_b hold the same
   number of rows labelled FOUND. *)
C21_SameFoundCount ==
    rpc = "done" => Cardinality(Found(result_a)) = Cardinality(Found(result_b))

====
